---- MODULE Spec2Model ----
(***************************************************************************)
(* A model of gonerator: the syntax-tree extractor of tmpl/methods.go and  *)
(* the Build pipeline of gonerator/gonerator.go.                           *)
(*                                                                         *)
(* Go strings are sequences of one-character strings, so that every        *)
(* string operation of the code (Split, ToLower, Contains, Join, Fprintf)  *)
(* is computed character by character.                                     *)
(***************************************************************************)
EXTENDS Integers, Sequences, FiniteSets, TLC

VARIABLES buf, pkg, data, fs, dirs, log, status, builds, parses, call, ret

vars == <<buf, pkg, data, fs, dirs, log, status, builds, parses, call, ret>>

(***************************************************************************)
(* Bounds of the model.                                                    *)
(***************************************************************************)
MaxDepth == 3       \* nesting depth of the type expressions
MaxMembers == 2     \* members of an interface declaration
MaxExtrasLen == 3   \* length of the extras string
MaxBuilds == 2      \* Build calls on one Gonerator
MaxParses == 1      \* ParsePackageDir calls on one Gonerator

(***************************************************************************)
(* package strings                                                         *)
(***************************************************************************)
LowerOf ==
  ("A" :> "a") @@ ("B" :> "b") @@ ("C" :> "c") @@ ("D" :> "d") @@
  ("E" :> "e") @@ ("F" :> "f") @@ ("G" :> "g") @@ ("H" :> "h") @@
  ("I" :> "i") @@ ("J" :> "j") @@ ("K" :> "k") @@ ("L" :> "l") @@
  ("M" :> "m") @@ ("N" :> "n") @@ ("O" :> "o") @@ ("P" :> "p") @@
  ("Q" :> "q") @@ ("R" :> "r") @@ ("S" :> "s") @@ ("T" :> "t") @@
  ("U" :> "u") @@ ("V" :> "v") @@ ("W" :> "w") @@ ("X" :> "x") @@
  ("Y" :> "y") @@ ("Z" :> "z")

\* strings.ToLower
ToLower(s) ==
  [i \in 1..Len(s) |-> IF s[i] \in DOMAIN LowerOf THEN LowerOf[s[i]] ELSE s[i]]

\* strings.Index, 1-based; 0 stands for Go's -1
Index(s, sub) ==
  LET hits == {i \in 1..(Len(s) - Len(sub) + 1) :
                 SubSeq(s, i, i + Len(sub) - 1) = sub}
  IN IF hits = {} THEN 0 ELSE CHOOSE i \in hits : \A j \in hits : i <= j

\* strings.Contains
Contains(s, sub) == Index(s, sub) # 0

\* strings.HasPrefix
HasPrefix(s, prefix) ==
  Len(s) >= Len(prefix) /\ SubSeq(s, 1, Len(prefix)) = prefix

\* strings.HasSuffix
HasSuffix(s, suffix) ==
  Len(s) >= Len(suffix) /\ SubSeq(s, Len(s) - Len(suffix) + 1, Len(s)) = suffix

\* strings.Split for a non-empty separator
RECURSIVE Split(_, _)
Split(s, sep) ==
  LET i == Index(s, sep)
  IN IF i = 0 THEN <<s>>
     ELSE <<SubSeq(s, 1, i - 1)>> \o Split(SubSeq(s, i + Len(sep), Len(s)), sep)

\* strings.Join
RECURSIVE JoinStrings(_, _)
JoinStrings(elems, sep) ==
  IF elems = <<>> THEN <<>>
  ELSE IF Len(elems) = 1 THEN elems[1]
  ELSE elems[1] \o sep \o JoinStrings(Tail(elems), sep)

(***************************************************************************)
(* package path/filepath (Unix)                                            *)
(***************************************************************************)
Slash == <<"/">>
Dot == <<".">>
DotDot == <<".", ".">>

\* the element stack of filepath.Clean: "." and empty elements are dropped,
\* ".." removes the element before it, is dropped at the root and is kept
\* at the start of a relative path
RECURSIVE cleanElems(_, _, _)
cleanElems(elems, acc, rooted) ==
  IF elems = <<>> THEN acc
  ELSE LET e == Head(elems)
           rest == Tail(elems)
       IN IF e = <<>> \/ e = Dot THEN cleanElems(rest, acc, rooted)
          ELSE IF e = DotDot
               THEN IF acc # <<>> /\ acc[Len(acc)] # DotDot
                    THEN cleanElems(rest, SubSeq(acc, 1, Len(acc) - 1), rooted)
                    ELSE IF rooted THEN cleanElems(rest, acc, rooted)
                    ELSE cleanElems(rest, Append(acc, e), rooted)
               ELSE cleanElems(rest, Append(acc, e), rooted)

\* filepath.Clean
Clean(path) ==
  IF path = <<>> THEN Dot
  ELSE LET rooted == Head(path) = "/"
           body == JoinStrings(cleanElems(Split(path, Slash), <<>>, rooted), Slash)
       IN IF rooted THEN Slash \o body
          ELSE IF body = <<>> THEN Dot ELSE body

\* filepath.Join of two elements: empty elements are ignored, the rest are
\* joined with a separator and cleaned
FilepathJoin(a, b) ==
  IF a = <<>> /\ b = <<>> THEN <<>>
  ELSE IF a = <<>> THEN Clean(b)
  ELSE IF b = <<>> THEN Clean(a)
  ELSE Clean(a \o Slash \o b)

\* filepath.Dir
Dir(path) ==
  LET cuts == {i \in 1..Len(path) : path[i] = "/"}
      last == IF cuts = {} THEN 0 ELSE CHOOSE i \in cuts : \A j \in cuts : j <= i
  IN Clean(SubSeq(path, 1, last))

(***************************************************************************)
(* package fmt: Sprintf over string operands.  After a percent sign the    *)
(* model reads the next character as the verb: flags, widths and           *)
(* precisions are outside the alphabet of the modelled formats, and so     *)
(* are the verbs q, x and X, which fmt accepts for strings.                *)
(***************************************************************************)
NoVerb == <<"%","!","(","N","O","V","E","R","B",")">>
Missing == <<"(","M","I","S","S","I","N","G",")">>
StringEq == <<"s","t","r","i","n","g","=">>
ExtraOpen == <<"%","!","(","E","X","T","R","A"," ">>

RECURSIVE extraArgs(_, _)
extraArgs(args, argNum) ==
  IF argNum > Len(args) THEN <<")">>
  ELSE StringEq \o args[argNum]
       \o (IF argNum < Len(args) THEN <<",", " ">> ELSE <<>>)
       \o extraArgs(args, argNum + 1)

\* the operands left over when the format ends
extraOperands(args, argNum) ==
  IF argNum <= Len(args) THEN ExtraOpen \o extraArgs(args, argNum) ELSE <<>>

\* doPrintf copies the format up to the next percent sign and then formats
\* one operand by the verb that follows it
RECURSIVE doPrintf(_, _, _)

\* the percent sign at index i of the format, and what follows it
doVerb(format, args, argNum, i) ==
  IF i = Len(format) THEN NoVerb \o extraOperands(args, argNum)
  ELSE IF format[i + 1] = "%"
  THEN <<"%">> \o doPrintf(SubSeq(format, i + 2, Len(format)), args, argNum)
  ELSE IF argNum > Len(args)
  THEN <<"%", "!", format[i + 1]>> \o Missing
       \o doPrintf(SubSeq(format, i + 2, Len(format)), args, argNum)
  ELSE IF format[i + 1] \in {"s", "v"}
  THEN args[argNum] \o doPrintf(SubSeq(format, i + 2, Len(format)), args, argNum + 1)
  ELSE <<"%", "!", format[i + 1], "(">> \o StringEq \o args[argNum] \o <<")">>
       \o doPrintf(SubSeq(format, i + 2, Len(format)), args, argNum + 1)

\* the format from its start to the first percent sign, at index i (0: none)
doLiteral(format, args, argNum, i) ==
  IF i = 0 THEN format \o extraOperands(args, argNum)
  ELSE SubSeq(format, 1, i - 1) \o doVerb(format, args, argNum, i)

doPrintf(format, args, argNum) ==
  doLiteral(format, args, argNum, Index(format, <<"%">>))

\* fmt.Sprintf
Sprintf(format, args) == doPrintf(format, args, 1)

(***************************************************************************)
(* package go/ast: the nodes the extractor reads.  A nil expression or a   *)
(* nil *ast.FieldList is a node of its own.                                *)
(***************************************************************************)
NilExpr == [kind |-> "nil"]
Ident(name) == [kind |-> "Ident", Name |-> name]
BasicLit(pos, value) == [kind |-> "BasicLit", ValuePos |-> pos, Value |-> value]
ArrayType(pos, len, elt) ==
  [kind |-> "ArrayType", Lbrack |-> pos, Len |-> len, Elt |-> elt]
StarExpr(pos, x) == [kind |-> "StarExpr", Star |-> pos, X |-> x]
MapType(pos, key, value) ==
  [kind |-> "MapType", Map |-> pos, Key |-> key, Value |-> value]
SelectorExpr(x, sel) == [kind |-> "SelectorExpr", X |-> x, Sel |-> sel]
Ellipsis(pos, elt) == [kind |-> "Ellipsis", Ellipsis |-> pos, Elt |-> elt]

NilFieldList == [nil |-> TRUE, List |-> <<>>]
FieldList(list) == [nil |-> FALSE, List |-> list]
Field(names, type) == [Names |-> names, Type |-> type]
FuncType(params, results) ==
  [kind |-> "FuncType", Params |-> params, Results |-> results]
InterfaceType(methods) == [kind |-> "InterfaceType", Methods |-> methods]
StructType(fields) == [kind |-> "StructType", Fields |-> fields]
TypeSpec(name, type) == [kind |-> "TypeSpec", Name |-> Ident(name), Type |-> type]
ValueSpec == [kind |-> "ValueSpec"]
GenDecl(specs) == [kind |-> "GenDecl", Specs |-> specs]
FuncDecl == [kind |-> "FuncDecl"]
File(name, decls) == [Name |-> Ident(name), Decls |-> decls]

(***************************************************************************)
(* The %s form of an operand that is an ast.Expr.  An *ast.Ident is a      *)
(* Stringer and prints its name.  Any other node prints as a pointer to a  *)
(* struct, &{f1 f2 ...}: a token.Pos field is an integer, for which %s is  *)
(* a bad verb; a nil interface field prints <nil>; an identifier field     *)
(* prints its name.  A field holding another composite node would print    *)
(* a memory address, and is not in the modelled universe (the CASE has no  *)
(* branch for it).                                                         *)
(***************************************************************************)
PosOpen == <<"%","!","s","(","t","o","k","e","n",".","P","o","s","=">>
NilAngle == <<"<","n","i","l",">">>

fmtPosField(pos) == PosOpen \o pos \o <<")">>

fmtExprField(x) ==
  CASE x.kind = "nil" -> NilAngle
    [] x.kind = "Ident" -> x.Name

fmtStructFields(e) ==
  CASE e.kind = "ArrayType" ->
         <<fmtPosField(e.Lbrack), fmtExprField(e.Len), fmtExprField(e.Elt)>>
    [] e.kind = "StarExpr" -> <<fmtPosField(e.Star), fmtExprField(e.X)>>
    [] e.kind = "Ellipsis" -> <<fmtPosField(e.Ellipsis), fmtExprField(e.Elt)>>
    [] e.kind = "MapType" ->
         <<fmtPosField(e.Map), fmtExprField(e.Key), fmtExprField(e.Value)>>
    [] e.kind = "SelectorExpr" -> <<fmtExprField(e.X), fmtExprField(e.Sel)>>

fmtExpr(e) ==
  IF e.kind = "Ident" THEN e.Name
  ELSE <<"&", "{">> \o JoinStrings(fmtStructFields(e), <<" ">>) \o <<"}">>

(***************************************************************************)
(* tmpl/methods.go                                                         *)
(***************************************************************************)
\* getTypeString whose pointer case prints X with %s, as the map case
\* prints its operands, instead of recursing (a composite X then prints as
\* a struct dump, abbreviated here to &{})
RECURSIVE getTypeStringFlatStar(_)
getTypeStringFlatStar(expr) ==
  CASE expr.kind = "ArrayType" ->
         Sprintf(<<"[", "]", "%", "s">>, <<getTypeStringFlatStar(expr.Elt)>>)
    [] expr.kind = "MapType" ->
         Sprintf(<<"m", "a", "p", "[", "%", "s", "]", "%", "s">>,
                 <<fmtExpr(expr.Key), fmtExpr(expr.Value)>>)
    [] expr.kind = "SelectorExpr" ->
         Sprintf(<<"%", "s", ".", "%", "s">>, <<fmtExpr(expr.X), fmtExpr(expr.Sel)>>)
    [] expr.kind = "StarExpr" ->
         Sprintf(<<"*", "%", "s">>,
                 <<IF expr.X.kind = "Ident" THEN expr.X.Name
                   ELSE <<"&", "{", "}">>>>)
    [] OTHER -> Sprintf(<<"%", "s">>, <<fmtExpr(expr)>>)

RECURSIVE getTypeString(_)
getTypeString(expr) ==
  CASE expr.kind = "ArrayType" ->
         Sprintf(<<"[", "]", "%", "s">>, <<getTypeString(expr.Elt)>>)
    [] expr.kind = "MapType" ->
         Sprintf(<<"m", "a", "p", "[", "%", "s", "]", "%", "s">>,
                 <<fmtExpr(expr.Key), fmtExpr(expr.Value)>>)
    [] expr.kind = "SelectorExpr" ->
         Sprintf(<<"%", "s", ".", "%", "s">>, <<fmtExpr(expr.X), fmtExpr(expr.Sel)>>)
    [] expr.kind = "StarExpr" ->
         Sprintf(<<"*", "%", "s">>, <<getTypeString(expr.X)>>)
    [] OTHER -> Sprintf(<<"%", "s">>, <<fmtExpr(expr)>>)

MethodField(names, type) == [Names |-> names, Type |-> type]
Method(name, params, results) ==
  [Name |-> name, Params |-> params, Results |-> results]

\* the outcome of a call: a returned value, or a run-time panic
Returned(v) == [panic |-> FALSE, out |-> v]
Panicked == [panic |-> TRUE, out |-> <<>>]

\* out = append(out, ...) over two parts of a loop, either of which may
\* have panicked
Appended(a, b) ==
  IF a.panic \/ b.panic THEN Panicked ELSE Returned(a.out \o b.out)

extractFieldsFromAst(items) ==
  [i \in 1..Len(items) |->
     MethodField([j \in 1..Len(items[i].Names) |-> items[i].Names[j].Name],
                 getTypeString(items[i].Type))]

\* fnDesl.Params.List and fnDesl.Results.List dereference the field lists:
\* a nil list is a nil-pointer panic
extractParamsAndResults(fnDesl) ==
  IF fnDesl.Params.nil \/ fnDesl.Results.nil THEN Panicked
  ELSE Returned([params |-> extractFieldsFromAst(fnDesl.Params.List),
                 results |-> extractFieldsFromAst(fnDesl.Results.List)])

\* fn := Method{...} from the extracted parameters and results
methodOf(name, pr) ==
  IF pr.panic THEN Panicked
  ELSE Returned(<<Method(name, pr.out.params, pr.out.results)>>)

\* the loop over sType.Methods.List
RECURSIVE methodsOfList(_)
methodsOfList(list) ==
  IF list = <<>> THEN Returned(<<>>)
  ELSE IF Head(list).Type.kind # "FuncType" THEN methodsOfList(Tail(list))
  ELSE Appended(methodOf(Head(list).Names[1].Name,
                         extractParamsAndResults(Head(list).Type)),
                methodsOfList(Tail(list)))

\* one spec of a general declaration
methodsOfSpec(spec, typeName) ==
  IF spec.kind # "TypeSpec" THEN Returned(<<>>)
  ELSE IF spec.Type.kind # "InterfaceType" THEN Returned(<<>>)
  ELSE IF spec.Name.Name # typeName THEN Returned(<<>>)
  ELSE IF spec.Type.Methods.nil THEN Panicked
  ELSE methodsOfList(spec.Type.Methods.List)

\* the loop over decl.Specs
RECURSIVE methodsOfSpecs(_, _)
methodsOfSpecs(specs, typeName) ==
  IF specs = <<>> THEN Returned(<<>>)
  ELSE Appended(methodsOfSpec(Head(specs), typeName),
                methodsOfSpecs(Tail(specs), typeName))

\* the loop over file.Decls
RECURSIVE methodsOfDecls(_, _)
methodsOfDecls(decls, typeName) ==
  IF decls = <<>> THEN Returned(<<>>)
  ELSE Appended(IF Head(decls).kind # "GenDecl" THEN Returned(<<>>)
                ELSE methodsOfSpecs(Head(decls).Specs, typeName),
                methodsOfDecls(Tail(decls), typeName))

GetMethods(file, typeName) == methodsOfDecls(file.Decls, typeName)

(***************************************************************************)
(* tmpl.GetFields and the TemplateData type are declared in files of the   *)
(* repository that are not part of the sources at hand.                    *)
(***************************************************************************)
TemplateData(typeName, templateFile, outputFile) ==
  [TypeName |-> typeName, TemplateFile |-> templateFile,
   OutputFile |-> outputFile, PackageName |-> <<>>,
   Fields |-> <<>>, Extras |-> <<>>, Methods |-> <<>>]

RECURSIVE Flatten(_)
Flatten(ss) == IF ss = <<>> THEN <<>> ELSE Head(ss) \o Flatten(Tail(ss))

\* every spec of every general declaration of a file, in declared order
specsOf(file) ==
  Flatten([i \in 1..Len(file.Decls) |->
             IF file.Decls[i].kind = "GenDecl" THEN file.Decls[i].Specs
             ELSE <<>>])

\* one Field per name of a member of a structure
fieldsOfMember(m) ==
  [j \in 1..Len(m.Names) |->
     [Name |-> m.Names[j].Name, Type |-> getTypeString(m.Type)]]

fieldsOfSpec(sp, typeName) ==
  IF sp.kind = "TypeSpec" /\ sp.Type.kind = "StructType" /\ sp.Name.Name = typeName
  THEN Flatten([k \in 1..Len(sp.Type.Fields.List) |->
                  fieldsOfMember(sp.Type.Fields.List[k])])
  ELSE <<>>

fieldsOfSpecs(specs, typeName) ==
  Flatten([i \in 1..Len(specs) |-> fieldsOfSpec(specs[i], typeName)])

\* the fields of the structures named typeName, in declared order
GetFields(file, typeName) == fieldsOfSpecs(specsOf(file), typeName)

(***************************************************************************)
(* gonerator/gonerator.go: the template data                               *)
(***************************************************************************)
NilPackage == [nil |-> TRUE, name |-> <<>>, dir |-> <<>>, astFiles |-> <<>>]
Package(name, dir, astFiles) ==
  [nil |-> FALSE, name |-> name, dir |-> dir, astFiles |-> astFiles]

\* if len(fields) > 0 { g.data.Fields = append(g.data.Fields, fields...) }
appendFields(d, fields) ==
  IF Len(fields) > 0 THEN [d EXCEPT !.Fields = d.Fields \o fields] ELSE d

\* the methods of a file assigned over the methods found so far
replaceMethods(d, methods) ==
  IF Len(methods) > 0 THEN [d EXCEPT !.Methods = methods] ELSE d

\* if len(methods) > 0 { g.data.Methods = append(g.data.Methods, methods...) }
appendMethods(d, methods) ==
  IF Len(methods) > 0 THEN [d EXCEPT !.Methods = d.Methods \o methods] ELSE d

\* the second half of the loop body, on the result of GetMethods; a panic
\* leaves the data as far as the loop had filled it
withMethods(d, methods) ==
  IF methods.panic THEN [panic |-> TRUE, out |-> d]
  ELSE Returned(appendMethods(d, methods.out))

\* the loop body of findTypeFields for one file
findTypeFieldsIn(file, d) ==
  withMethods(appendFields(d, GetFields(file, d.TypeName)),
              GetMethods(file, d.TypeName))

\* the loop of findTypeFields over g.pkg.astFiles
RECURSIVE findTypeFields(_, _)
findTypeFieldsNext(rest, r) ==
  IF r.panic THEN r ELSE findTypeFields(rest, r.out)

findTypeFields(files, d) ==
  IF files = <<>> THEN Returned(d)
  ELSE findTypeFieldsNext(Tail(files), findTypeFieldsIn(Head(files), d))

\* the extras bound with their empty tokens dropped
bindExtrasNoEmpty(found, p, extras) ==
  IF found.panic THEN found
  ELSE Returned([found.out EXCEPT
           !.Extras = SelectSeq(Split(extras, <<",">>), LAMBDA t : t # <<>>),
           !.PackageName = p.name])

\* g.data.Extras = strings.Split(extras, ","); g.data.PackageName = g.pkg.name
bindExtras(found, p, extras) ==
  IF found.panic THEN found
  ELSE Returned([found.out EXCEPT
           !.Extras = Split(extras, <<",">>),
           !.PackageName = p.name])

\* buildTemplateData on package p and data d; a nil g.pkg is a nil-pointer
\* panic in findTypeFields
buildTemplateData(p, d, extras) ==
  IF p.nil THEN [panic |-> TRUE, out |-> d]
  ELSE bindExtras(findTypeFields(p.astFiles, d), p, extras)

(***************************************************************************)
(* The inputs of the model: identifiers, type expressions, interface       *)
(* members, files and syntax forests.                                      *)
(***************************************************************************)
S_int == <<"i", "n", "t">>
S_byte == <<"b", "y", "t", "e">>
S_error == <<"e", "r", "r", "o", "r">>
S_string == <<"s", "t", "r", "i", "n", "g">>
S_io == <<"i", "o">>
S_Reader == <<"R", "e", "a", "d", "e", "r">>
S_Read == <<"R", "e", "a", "d">>
S_Close == <<"C", "l", "o", "s", "e">>
S_Get == <<"G", "e", "t">>
S_Put == <<"P", "u", "t">>
S_err == <<"e", "r", "r">>
S_main == <<"m", "a", "i", "n">>
S_R == <<"R">>
S_S == <<"S">>
S_Q == <<"Q">>
S_T == <<"T">>

\* a source position, as token.Pos prints it
SomePos == <<"7">>

IoReader == SelectorExpr(Ident(S_io), Ident(S_Reader))
SliceOf(elt) == ArrayType(SomePos, NilExpr, elt)
PointerTo(x) == StarExpr(SomePos, x)

TypeLeaves ==
  {Ident(S_int), Ident(S_byte), Ident(S_T), IoReader,
   Ellipsis(SomePos, Ident(S_int)),
   MapType(SomePos, Ident(S_string), Ident(S_int)),
   MapType(SomePos, Ident(S_string), SliceOf(Ident(S_byte))),
   MapType(SomePos, PointerTo(Ident(S_T)), IoReader)}

RECURSIVE TypeExprs(_)
TypeExprs(depth) ==
  IF depth = 0 THEN TypeLeaves
  ELSE LET sub == TypeExprs(depth - 1)
       IN TypeLeaves
          \cup {ArrayType(SomePos, len, e) :
                  len \in {NilExpr, BasicLit(SomePos, <<"3">>)}, e \in sub}
          \cup {PointerTo(e) : e \in sub}

SeqsUpTo(S, n) == UNION {[1..k -> S] : k \in 0..n}

\* Read(p []byte) (n int, err error)
M_Read ==
  Field(<<Ident(S_Read)>>,
        FuncType(FieldList(<<Field(<<Ident(<<"p">>)>>, SliceOf(Ident(S_byte)))>>),
                 FieldList(<<Field(<<Ident(<<"n">>)>>, Ident(S_int)),
                             Field(<<Ident(S_err)>>, Ident(S_error))>>)))
\* Close()
M_Close == Field(<<Ident(S_Close)>>, FuncType(FieldList(<<>>), NilFieldList))
\* Get(int) *T
M_Get ==
  Field(<<Ident(S_Get)>>,
        FuncType(FieldList(<<Field(<<>>, Ident(S_int))>>),
                 FieldList(<<Field(<<>>, PointerTo(Ident(S_T)))>>)))
\* Put(a, b int, m map[string]int) error
M_Put ==
  Field(<<Ident(S_Put)>>,
        FuncType(FieldList(<<Field(<<Ident(<<"a">>), Ident(<<"b">>)>>, Ident(S_int)),
                             Field(<<Ident(<<"m">>)>>,
                                   MapType(SomePos, Ident(S_string), Ident(S_int)))>>),
                 FieldList(<<Field(<<>>, Ident(S_error))>>)))
\* an embedded io.Reader
M_Embedded == Field(<<>>, IoReader)

Members == {M_Read, M_Close, M_Get, M_Put, M_Embedded}

TypeNames == {S_R, S_S, S_Q}

InterfaceDecl(name, members) ==
  GenDecl(<<TypeSpec(name, InterfaceType(FieldList(members)))>>)

InterfaceDecls ==
  {InterfaceDecl(name, ms) : name \in {S_R, S_Q}, ms \in SeqsUpTo(Members, MaxMembers)}

\* type S struct { X, Y int; B []byte }
StructDecl ==
  GenDecl(<<TypeSpec(S_S, StructType(FieldList(
    <<Field(<<Ident(<<"X">>), Ident(<<"Y">>)>>, Ident(S_int)),
      Field(<<Ident(<<"B">>)>>, SliceOf(Ident(S_byte)))>>)))>>)

\* declarations that are not interfaces: a structure, a named non-interface
\* type R, a var declaration and a function
OtherDecls ==
  {StructDecl, GenDecl(<<TypeSpec(S_R, Ident(S_int))>>), GenDecl(<<ValueSpec>>),
   FuncDecl}

\* var ...; type R interface { Get(int) *T } in one declaration group
GroupDecl ==
  GenDecl(<<ValueSpec, TypeSpec(S_R, InterfaceType(FieldList(<<M_Get>>)))>>)

SampleFiles ==
  {File(S_main, <<d>>) : d \in InterfaceDecls \cup OtherDecls}
  \cup {File(S_main, <<FuncDecl, d, GroupDecl>>) : d \in InterfaceDecls}

\* the files of the sample forests
F_Read == File(S_main, <<StructDecl, InterfaceDecl(S_R, <<M_Read>>)>>)
F_GetPut == File(S_main, <<InterfaceDecl(S_R, <<M_Get, M_Embedded, M_Put>>)>>)
F_ReadAgain == File(S_main, <<FuncDecl, InterfaceDecl(S_R, <<M_Read>>), StructDecl>>)
F_Close == File(S_main, <<InterfaceDecl(S_Q, <<M_Get>>), InterfaceDecl(S_R, <<M_Close>>)>>)
F_Plain == File(S_main, <<GenDecl(<<TypeSpec(S_R, Ident(S_int))>>)>>)

ForestFiles == {F_Read, F_GetPut, F_ReadAgain, F_Close, F_Plain}

Forests == {fo \in SeqsUpTo(ForestFiles, 2) : fo # <<>>}

ExtrasChars == {",", "a", " "}

ExtrasStrings == SeqsUpTo(ExtrasChars, MaxExtrasLen)

(***************************************************************************)
(* The file system.  A file holds the text that was written; a file that   *)
(* went through format.Source holds the gofmt form of that text.  Template *)
(* files hold template text, in which a directive is one item.             *)
(***************************************************************************)
FileOf(src, formatted) == [src |-> src, formatted |-> formatted]

RECURSIVE MapOf(_)
MapOf(pairs) ==
  IF pairs = <<>> THEN <<>>
  ELSE (pairs[1][1] :> pairs[1][2]) @@ MapOf(Tail(pairs))

D_TypeName == "{{.TypeName}}"
D_PackageName == "{{.PackageName}}"
D_Methods == "{{range .Methods}}{{.Name}}{{end}}"
D_Fields == "{{range .Fields}}{{.Name}}{{end}}"
D_Extras == "{{range .Extras}}{{.}}{{end}}"
D_Undefined == "{{.Undefined}}"

P_a == <<"p", "/", "a">>
P_b == <<"/", "b">>
P_c == <<"p", "/", "c">>

InitialFiles ==
  MapOf(<< <<P_a, FileOf(<<D_TypeName, ":", D_Methods, D_Fields, D_Extras>>, FALSE)>>,
           <<P_b, FileOf(<<"%", "d", D_PackageName, "%">>, FALSE)>>,
           <<P_c, FileOf(<<"x", D_Undefined>>, FALSE)>> >>)

InitialDirs == {<<"/">>, <<"p">>}

\* the directory and every ancestor of it, as os.MkdirAll creates them
Ancestors(directory) ==
  {Clean(SubSeq(directory, 1, i)) :
     i \in {k \in 1..Len(directory) : k = Len(directory) \/ directory[k + 1] = "/"}}

(***************************************************************************)
(* The directories build.ImportDir and parser.ParseFile can be pointed at: *)
(* for each, the Go files and their syntax trees, or no tree for a file    *)
(* that does not parse.  A directory that is not listed is not a package.  *)
(***************************************************************************)
SourceFile(name, parsed, tree) == [name |-> name, parsed |-> parsed, tree |-> tree]

D_p == <<"p", "/">>
D_u == <<"u", "/">>
D_b == <<"b", "/">>
D_q == <<"q", "/">>

N_x == <<"x", ".", "g", "o">>
N_y == <<"y", ".", "g", "o">>

SourceDirs ==
  MapOf(<< <<D_p, <<SourceFile(N_x, TRUE, F_Read), SourceFile(N_y, TRUE, F_ReadAgain)>> >>,
           <<D_u, <<SourceFile(N_x, TRUE, F_Close)>> >>,
           <<D_b, <<SourceFile(N_x, TRUE, F_Plain), SourceFile(N_y, FALSE, F_Plain)>> >> >>)

Directories == {D_p, D_u, D_b, D_q}

(***************************************************************************)
(* tmpl.Generate is declared in a file of the repository that is not part  *)
(* of the sources at hand: it executes the template against the data, and  *)
(* a directive that names a field the data does not have is fatal.         *)
(***************************************************************************)
Names(list) == Flatten([i \in 1..Len(list) |-> list[i].Name])

\* what one item of a template renders to
Rendered(d, item) ==
  CASE item = D_TypeName -> [err |-> FALSE, out |-> d.TypeName]
    [] item = D_PackageName -> [err |-> FALSE, out |-> d.PackageName]
    [] item = D_Methods -> [err |-> FALSE, out |-> Names(d.Methods)]
    [] item = D_Fields -> [err |-> FALSE, out |-> Names(d.Fields)]
    [] item = D_Extras -> [err |-> FALSE, out |-> Flatten(d.Extras)]
    [] item = D_Undefined -> [err |-> TRUE, out |-> <<>>]
    [] OTHER -> [err |-> FALSE, out |-> <<item>>]

RenderedThen(a, b) ==
  IF a.err \/ b.err THEN [err |-> TRUE, out |-> <<>>]
  ELSE [err |-> FALSE, out |-> a.out \o b.out]

RECURSIVE Generate(_, _)
Generate(d, templateContent) ==
  IF templateContent = <<>> THEN [err |-> FALSE, out |-> <<>>]
  ELSE RenderedThen(Rendered(d, Head(templateContent)),
                    Generate(d, Tail(templateContent)))

(***************************************************************************)
(* gonerator/gonerator.go: the Gonerator                                   *)
(***************************************************************************)
Go == <<".", "g", "o">>

isGo(filename) == Contains(filename, Go)

HeaderLine1 ==
  <<"/","/"," ","C","o","d","e"," ","g","o","n","e","r","a","t","e","d"," ",
    "b","y"," ","\"","g","i","t","h","u","b",".","c","o","m","/","m","y",
    "t","e","k","s","i","/","g","o","/","t","o","o","l","s","/","g","o","n",
    "e","r","a","t","o","r","\"","\n","/","/"," ","D","O"," ","N","O","T",
    " ","E","D","I","T","\n">>
HeaderLine2 ==
  <<"/","/"," ","@","g","e","n","e","r","a","t","e","d"," ","\n">>
HeaderLine3 == <<"/","/","\n">>
HeaderLine4 == <<"/","/"," ","A","r","g","s",":","\n">>
HeaderTypeName ==
  <<"/","/"," ","T","y","p","e","N","a","m","e",":"," ","%","s","\n">>
HeaderTemplate ==
  <<"/","/"," ","T","e","m","p","l","a","t","e",":"," ","%","s","\n">>
HeaderDestination ==
  <<"/","/"," ","D","e","s","t","i","n","a","t","i","o","n",":"," ","%","s",
    "\n">>

\* g.printf appends the formatted text to the buffer b
printf(b, format, args) == b \o Sprintf(format, args)

\* buildHeader on buffer b and data d
buildHeader(b, d) ==
  IF isGo(d.OutputFile)
  THEN LET b1 == printf(b, HeaderLine1, <<>>)
           b2 == printf(b1, HeaderLine2, <<>>)
           b3 == printf(b2, HeaderLine3, <<>>)
           b4 == printf(b3, HeaderLine4, <<>>)
           b5 == printf(b4, HeaderTypeName, <<d.TypeName>>)
           b6 == printf(b5, HeaderTemplate, <<d.TemplateFile>>)
           b7 == printf(b6, HeaderDestination, <<d.OutputFile>>)
       IN printf(b7, <<"\n">>, <<>>)
  ELSE b

\* the path of the template file, as Build resolves it
templatePath(dir, templateFile) ==
  IF ~HasPrefix(templateFile, Slash) THEN dir \o templateFile ELSE templateFile

\* the template read that goes on with an empty template when the file
\* cannot be read
readTemplateIgnoringError(fsys, dir, templateFile) ==
  LET path == templatePath(dir, templateFile)
  IN IF path \notin DOMAIN fsys THEN [panic |-> FALSE, content |-> <<>>]
     ELSE [panic |-> FALSE, content |-> fsys[path].src]

\* the template read of Build: ioutil.ReadFile, and a panic on its error
readTemplate(fsys, dir, templateFile) ==
  LET path == templatePath(dir, templateFile)
  IN IF path \notin DOMAIN fsys THEN [panic |-> TRUE, content |-> <<>>]
     ELSE [panic |-> FALSE, content |-> fsys[path].src]

\* g.printf(buffer.String()): the rendered text is the format
printRendered(b, r) ==
  IF r.err THEN [fatal |-> TRUE, buf |-> b]
  ELSE [fatal |-> FALSE, buf |-> printf(b, r.out, <<>>)]

generate(b, d, templateContent) == printRendered(b, Generate(d, templateContent))

W_InvalidGo == "warning: internal error: invalid Go gonerated"
W_Compile == "warning: compile the package to analyze the error"
E_Mkdir == "error creating destination directory"
E_Write == "error writing output"
E_Directory == "cannot process directory"
E_Parse == "parsing package"
E_NoFiles == "no buildable Go files"

\* format: format.Source accepts the buffer or rejects it (formatErr)
format(b, lg, formatErr) ==
  IF formatErr
  THEN [src |-> FileOf(b, FALSE), err |-> TRUE, log |-> lg \o <<W_InvalidGo, W_Compile>>]
  ELSE [src |-> FileOf(b, TRUE), err |-> FALSE, log |-> lg]

toBytes(b) == FileOf(b, FALSE)

\* the name writeFile writes to
outputName(dir, filename) == FilepathJoin(dir, ToLower(filename))

\* writeFile: os.MkdirAll and ioutil.WriteFile succeed or fail (mkdirErr,
\* writeErr); a failure of either is fatal
writeFile(b, fsys, ds, lg, dir, filename, formatErr, mkdirErr, writeErr) ==
  LET f == IF isGo(filename) THEN format(b, lg, formatErr)
           ELSE [src |-> toBytes(b), err |-> FALSE, log |-> lg]
      name == outputName(dir, filename)
      directory == Dir(name)
  IN IF mkdirErr
     THEN [fs |-> fsys, dirs |-> ds, log |-> Append(f.log, E_Mkdir),
           fatal |-> TRUE, err |-> f.err]
     ELSE IF writeErr
     THEN [fs |-> fsys, dirs |-> ds \cup Ancestors(directory),
           log |-> Append(f.log, E_Write), fatal |-> TRUE, err |-> f.err]
     ELSE [fs |-> (name :> f.src) @@ fsys, dirs |-> ds \cup Ancestors(directory),
           log |-> f.log, fatal |-> FALSE, err |-> f.err]

\* parsePackage: the loop over the names, from the syntax trees parsed so far
RECURSIVE parseFiles(_, _)
parseFiles(files, astFiles) ==
  IF files = <<>> THEN [fatal |-> FALSE, astFiles |-> astFiles]
  ELSE LET f == Head(files)
       IN IF ~HasSuffix(f.name, Go) THEN parseFiles(Tail(files), astFiles)
          ELSE IF ~f.parsed THEN [fatal |-> TRUE, astFiles |-> astFiles]
          ELSE parseFiles(Tail(files), Append(astFiles, f.tree))

parsePackage(directory, files) ==
  LET r == parseFiles(files, <<>>)
  IN IF r.fatal
     THEN [fatal |-> TRUE, msg |-> E_Parse, pkg |-> Package(<<>>, <<>>, <<>>)]
     ELSE IF Len(r.astFiles) = 0
     THEN [fatal |-> TRUE, msg |-> E_NoFiles, pkg |-> Package(<<>>, <<>>, <<>>)]
     ELSE [fatal |-> FALSE, msg |-> "",
           pkg |-> Package(r.astFiles[1].Name.Name, directory, r.astFiles)]

\* the call in progress and what it returned
NoRet == [returned |-> FALSE, panic |-> FALSE, out |-> <<>>]
Ret(panic, out) == [returned |-> TRUE, panic |-> panic, out |-> out]
NoCall == [fn |-> "none"]

(***************************************************************************)
(* The operations of a Gonerator.  status is "running" while the process   *)
(* runs, "panic" after a run-time panic, "fatal" after log.Fatal and       *)
(* "exit" after os.Exit(-1).                                               *)
(***************************************************************************)
Init ==
  /\ buf = <<>>
  /\ pkg = NilPackage
  /\ data = TemplateData(<<>>, <<>>, <<>>)
  /\ fs = InitialFiles
  /\ dirs = InitialDirs
  /\ log = <<>>
  /\ status = "running"
  /\ builds = 0
  /\ parses = 0
  /\ call = NoCall
  /\ ret = NoRet

ParsePackageDir(directory) ==
  /\ status = "running"
  /\ parses < MaxParses
  /\ parses' = parses + 1
  /\ IF directory \notin DOMAIN SourceDirs
     THEN /\ status' = "fatal"
          /\ log' = Append(log, E_Directory)
          /\ pkg' = pkg
     ELSE LET r == parsePackage(directory, SourceDirs[directory])
          IN /\ pkg' = r.pkg
             /\ status' = IF r.fatal THEN "fatal" ELSE "running"
             /\ log' = IF r.fatal THEN Append(log, r.msg) ELSE log
  /\ UNCHANGED <<buf, data, fs, dirs, builds, call, ret>>

\* the end of Build, from the result w of writeFile
BuildWritten(w) ==
  /\ fs' = w.fs
  /\ dirs' = w.dirs
  /\ log' = w.log
  /\ status' = IF w.fatal THEN "fatal" ELSE IF w.err THEN "exit" ELSE "running"

\* Build aborted with status st, before writeFile
BuildAborted(st) ==
  /\ status' = st
  /\ UNCHANGED <<fs, dirs, log>>

Build(dir, typeName, templateFile, outputFile, extras, formatErr, mkdirErr, writeErr) ==
  /\ status = "running"
  /\ builds < MaxBuilds
  /\ builds' = builds + 1
  /\ call' = [fn |-> "Build", dir |-> dir, typeName |-> typeName,
              templateFile |-> templateFile, outputFile |-> outputFile,
              extras |-> extras]
  /\ \E d0 \in {TemplateData(typeName, templateFile, outputFile)} :
     \E b1 \in {buildHeader(buf, d0)} :
     \E read \in {readTemplate(fs, dir, templateFile)} :
       IF read.panic
       THEN data' = d0 /\ buf' = b1 /\ BuildAborted("panic")
       ELSE \E bound \in {buildTemplateData(pkg, d0, extras)} :
         IF bound.panic
         THEN data' = bound.out /\ buf' = b1 /\ BuildAborted("panic")
         ELSE \E gen \in {generate(b1, bound.out, read.content)} :
           IF gen.fatal
           THEN data' = bound.out /\ buf' = b1 /\ BuildAborted("fatal")
           ELSE /\ data' = bound.out
                /\ buf' = gen.buf
                /\ BuildWritten(writeFile(gen.buf, fs, dirs, log, dir, outputFile,
                                          formatErr, mkdirErr, writeErr))
  /\ UNCHANGED <<pkg, parses, ret>>

\* the arguments of the modelled Build calls
O_go == <<"G", "/", "R", ".", "g", "o">>
O_txt == <<"R", ".", "t", "x", "t">>
O_md == <<"r", ".", "g", "o", ".", "m", "d">>

BuildDirs == {D_p}
BuildTypeNames == {S_R, S_S}
TemplateFiles == {<<"a">>, P_b, <<"c">>, <<"m">>}
OutputFiles == {O_go, O_txt, O_md}
BuildExtras == {<<>>, <<"a", ",", "b">>}

Next ==
  \/ \E directory \in Directories : ParsePackageDir(directory)
  \/ \E dir \in BuildDirs, typeName \in BuildTypeNames,
        templateFile \in TemplateFiles, outputFile \in OutputFiles,
        extras \in BuildExtras, formatErr \in BOOLEAN, mkdirErr \in BOOLEAN,
        writeErr \in BOOLEAN :
       Build(dir, typeName, templateFile, outputFile, extras,
             formatErr, mkdirErr, writeErr)

Spec == Init /\ [][Next]_vars

(***************************************************************************)
(* The extractor and the data builder, one call at a time: the initial     *)
(* state draws a call and its arguments, the action applies the function.  *)
(***************************************************************************)
S_dir == <<"p", "/">>
S_tmpl == <<"a">>
S_out == <<"r", ".", "t", "x", "t">>

Calls ==
  {[fn |-> "getTypeString", expr |-> e] : e \in TypeExprs(MaxDepth)}
  \cup {[fn |-> "GetMethods", file |-> f, typeName |-> t] :
          f \in SampleFiles, t \in TypeNames}
  \cup {[fn |-> "buildTemplateData", astFiles |-> fo, typeName |-> t, extras |-> x] :
          fo \in Forests, t \in TypeNames, x \in ExtrasStrings}

InitCalls ==
  /\ call \in Calls
  /\ ret = NoRet
  /\ pkg = IF call.fn = "buildTemplateData"
           THEN Package(call.astFiles[1].Name.Name, S_dir, call.astFiles)
           ELSE NilPackage
  /\ data = IF call.fn = "buildTemplateData"
            THEN TemplateData(call.typeName, S_tmpl, S_out)
            ELSE TemplateData(<<>>, <<>>, <<>>)
  /\ buf = <<>>
  /\ fs = <<>>
  /\ dirs = {}
  /\ log = <<>>
  /\ status = "running"
  /\ builds = 0
  /\ parses = 0

CallGetTypeString ==
  /\ call.fn = "getTypeString"
  /\ ~ret.returned
  /\ ret' = Ret(FALSE, getTypeString(call.expr))
  /\ UNCHANGED <<buf, pkg, data, fs, dirs, log, status, builds, parses, call>>

CallGetMethods ==
  /\ call.fn = "GetMethods"
  /\ ~ret.returned
  /\ LET r == GetMethods(call.file, call.typeName)
     IN ret' = Ret(r.panic, r.out)
  /\ UNCHANGED <<buf, pkg, data, fs, dirs, log, status, builds, parses, call>>

CallBuildTemplateData ==
  /\ call.fn = "buildTemplateData"
  /\ ~ret.returned
  /\ LET r == buildTemplateData(pkg, data, call.extras)
     IN /\ data' = r.out
        /\ ret' = Ret(r.panic, <<>>)
  /\ UNCHANGED <<buf, pkg, fs, dirs, log, status, builds, parses, call>>

NextCalls == CallGetTypeString \/ CallGetMethods \/ CallBuildTemplateData

SpecCalls == InitCalls /\ [][NextCalls]_vars

(***************************************************************************)
(* What the declarations say, read off the syntax tree member by member.   *)
(***************************************************************************)
IsInterfaceNamed(sp, typeName) ==
  sp.kind = "TypeSpec" /\ sp.Type.kind = "InterfaceType" /\ sp.Name.Name = typeName

\* the method members of the interfaces named typeName, in declared order
DeclaredMethods(file, typeName) ==
  LET specs == specsOf(file)
  IN Flatten([i \in 1..Len(specs) |->
                IF IsInterfaceNamed(specs[i], typeName)
                THEN SelectSeq(specs[i].Type.Methods.List,
                               LAMBDA m : m.Type.kind = "FuncType")
                ELSE <<>>])

\* the slots of a parameter or result list; a method that declares no
\* results has none
DeclaredSlots(fl) ==
  IF fl.nil THEN <<>>
  ELSE [i \in 1..Len(fl.List) |->
          [Names |-> [j \in 1..Len(fl.List[i].Names) |-> fl.List[i].Names[j].Name],
           Type |-> getTypeString(fl.List[i].Type)]]

ExpectedMethods(file, typeName) ==
  LET ms == DeclaredMethods(file, typeName)
  IN [i \in 1..Len(ms) |->
        [Name |-> ms[i].Names[1].Name,
         Params |-> DeclaredSlots(ms[i].Type.Params),
         Results |-> DeclaredSlots(ms[i].Type.Results)]]

ExpectedForestMethods(files, typeName) ==
  Flatten([i \in 1..Len(files) |-> ExpectedMethods(files[i], typeName)])

\* C1: for every file and type name, GetMethods completes and returns one
\* Method per declared method of the interfaces of that name, in order, with
\* the declared parameter and result slots (none when none are declared).
C1_GetMethodsTotal ==
  (call.fn = "GetMethods" /\ ret.returned) =>
    (~ret.panic /\ ret.out = ExpectedMethods(call.file, call.typeName))

\* the text of a chain of pointers and slices over an identifier, written
\* outside in
RECURSIVE ChainText(_)
ChainText(e) ==
  IF e.kind = "Ident" THEN e.Name
  ELSE IF e.kind = "StarExpr" THEN <<"*">> \o ChainText(e.X)
  ELSE <<"[", "]">> \o ChainText(e.Elt)

RECURSIVE IsChain(_)
IsChain(e) ==
  \/ e.kind = "Ident"
  \/ e.kind = "StarExpr" /\ IsChain(e.X)
  \/ e.kind = "ArrayType" /\ e.Len = NilExpr /\ IsChain(e.Elt)

\* C2: getTypeString of a pointer to T is "*" followed by getTypeString(T),
\* of a slice of T is "[]" followed by getTypeString(T), and of an
\* identifier is its name, at any nesting depth.
C2_Compositional ==
  (call.fn = "getTypeString" /\ ret.returned) =>
    /\ call.expr.kind = "StarExpr" =>
         ret.out = <<"*">> \o getTypeString(call.expr.X)
    /\ (call.expr.kind = "ArrayType" /\ call.expr.Len = NilExpr) =>
         ret.out = <<"[", "]">> \o getTypeString(call.expr.Elt)
    /\ call.expr.kind = "Ident" => ret.out = call.expr.Name
    /\ IsChain(call.expr) => ret.out = ChainText(call.expr)

\* slice of pointer to slice of int has been rendered as []*[]int
C2_Witness ==
  /\ call.fn = "getTypeString"
  /\ ret.returned
  /\ call.expr = SliceOf(PointerTo(SliceOf(Ident(S_int))))
  /\ ret.out = <<"[", "]", "*", "[", "]", "i", "n", "t">>

CountOf(s, c) == Cardinality({i \in 1..Len(s) : s[i] = c})

\* C8: once the data is bound, Extras is the extras string cut at every
\* comma and nowhere else: k commas give k+1 tokens, which joined by commas
\* give the string back, and the empty string gives one empty token.
C8_ExtrasSplit ==
  (call.fn = "buildTemplateData" /\ ret.returned /\ ~ret.panic) =>
    /\ Len(data.Extras) = CountOf(call.extras, ",") + 1
    /\ JoinStrings(data.Extras, <<",">>) = call.extras
    /\ \A i \in 1..Len(data.Extras) : CountOf(data.Extras[i], ",") = 0
    /\ call.extras = <<>> => data.Extras = << <<>> >>

\* the empty extras string has been bound as one empty token
C8_Witness ==
  /\ call.fn = "buildTemplateData"
  /\ ret.returned /\ ~ret.panic
  /\ call.extras = <<>>
  /\ data.Extras = << <<>> >>

\* C9: after findTypeFields, Methods is the concatenation, file by file and
\* declaration by declaration, of the methods of the interfaces named
\* typeName; when no file declares such an interface the call completes
\* with no methods.
C9_MethodsConcatenated ==
  (call.fn = "buildTemplateData" /\ ret.returned) =>
    /\ ~ret.panic =>
         data.Methods = ExpectedForestMethods(pkg.astFiles, data.TypeName)
    /\ (\A i \in 1..Len(pkg.astFiles) :
          DeclaredMethods(pkg.astFiles[i], data.TypeName) = <<>>
          /\ \A j \in 1..Len(specsOf(pkg.astFiles[i])) :
               ~IsInterfaceNamed(specsOf(pkg.astFiles[i])[j], data.TypeName))
       => (~ret.panic /\ data.Methods = <<>>)

\* two files that declare the same method have both contributed it
C9_Witness ==
  /\ call.fn = "buildTemplateData"
  /\ ret.returned /\ ~ret.panic
  /\ call.astFiles = <<F_Read, F_ReadAgain>>
  /\ Len(data.Methods) = 2
  /\ data.Methods[1] = data.Methods[2]
  /\ data.Methods[1].Name = S_Read

(***************************************************************************)
(* The claims about Build, on the state a Build call leaves behind.        *)
(***************************************************************************)
\* the last Build call returned to its caller
BuildReturned == call.fn = "Build" /\ status = "running"

\* the name the last Build call wrote to, and the template it read
LastOutputName == outputName(call.dir, call.outputFile)
LastTemplate == fs[templatePath(call.dir, call.templateFile)].src

\* a Go source file, by its name
IsGoSource(filename) == HasSuffix(filename, Go)

\* a path with its final element in lower case and the rest as given
LowerLast(path) ==
  LET cuts == {i \in 1..Len(path) : path[i] = "/"}
      last == IF cuts = {} THEN 0 ELSE CHOOSE i \in cuts : \A j \in cuts : j <= i
  IN SubSeq(path, 1, last) \o ToLower(SubSeq(path, last + 1, Len(path)))

\* C3: the file written by a Build starts with the generated-file header
\* if and only if the output file is a Go source file, and only a Go source
\* file goes through the Go formatter.
C3_HeaderIffGoSource ==
  (call.fn = "Build" /\ builds = 1 /\ status \in {"running", "exit"}) =>
    /\ HasPrefix(fs[LastOutputName].src, HeaderLine1) <=> IsGoSource(call.outputFile)
    /\ fs[LastOutputName].formatted => IsGoSource(call.outputFile)

\* C4: when format.Source rejects the generated text, Build warns, writes
\* the unformatted buffer and returns to its caller: the process does not
\* end with a failure status.
C4_FormatFailureNotFatal ==
  (call.fn = "Build" /\ log # <<>> /\ log[Len(log)] = W_Compile) =>
    /\ fs[LastOutputName] = FileOf(buf, FALSE)
    /\ status = "running"

\* C5: a step that fails to load the package, to read the template or to
\* render it creates no directory and writes no file.
C5_NoWriteBeforeRender ==
  [][(\/ /\ builds' = builds + 1
         /\ \/ templatePath(call'.dir, call'.templateFile) \notin DOMAIN fs
            \/ Generate(data', fs[templatePath(call'.dir, call'.templateFile)].src).err
      \/ /\ parses' = parses + 1
         /\ status' = "fatal")
     => (fs' = fs /\ dirs' = dirs)]_vars

\* a second Build has aborted on a template file that does not exist,
\* after a first one had written its output
C5_Witness ==
  /\ call.fn = "Build"
  /\ builds = 2
  /\ status = "panic"
  /\ templatePath(call.dir, call.templateFile) \notin DOMAIN fs
  /\ DOMAIN fs # DOMAIN InitialFiles

\* C6: what a Build writes depends on its own arguments and the parsed
\* package alone: it is what a fresh Gonerator, with an empty buffer, would
\* write for the same template data.
C6_BuildIsPure ==
  BuildReturned =>
    fs[LastOutputName].src =
      printRendered(buildHeader(<<>>, data), Generate(data, LastTemplate)).buf

\* C7: the file is written to the directory joined with the output path
\* whose final element is in lower case and whose directories are as given.
C7_LowerCasesFileNameOnly ==
  (BuildReturned /\ builds = 1) =>
    DOMAIN fs = DOMAIN InitialFiles
                  \cup {FilepathJoin(call.dir, LowerLast(call.outputFile))}

\* C10: the buffer after generate is the header, if any, followed by the
\* rendered text as it is, so that a destination that gets no header holds
\* the rendered text byte for byte.
C10_RenderedUnaltered ==
  (BuildReturned /\ builds = 1) =>
    /\ buf = buildHeader(<<>>, data) \o Generate(data, LastTemplate).out
    /\ ~isGo(call.outputFile) =>
         fs[LastOutputName].src = Generate(data, LastTemplate).out

====
